---- MODULE Spec2Model ----
(***************************************************************************)
(* Meeting intake-and-scheduling engine of scripts/inbox-monitor:          *)
(* MeetingCalendar (calendar_pg.py) and MeetingScheduler (scheduler_pg.py).*)
(* The store is the meetings table; every store call (one SQL statement in *)
(* its own connection) is one atomic step, and the execution contexts      *)
(* (the IDLE intake thread, the check_upcoming_loop thread, a poll-mode    *)
(* replica) interleave between store calls.  Time is in minutes.           *)
(***************************************************************************)
EXTENDS Integers, Sequences, FiniteSets, TLC

\* ---------------------------------------------------------------- bounds
MaxMeetings == 3
MaxTicks == 1
TickLen == 5
MaxUid == 3

\* ------------------------------------------------------ program constants
JoinBeforeMinutes == 1
GraceMinutes == 10
DefaultDuration == 60
DefaultMinutesAhead == 5

NoTime == -1
NoId == 0
Url == "https://meet.google.com/x"

\* The two execution contexts that share the store: "push" is the IDLE
\* thread calling process_invite, "poll" is the context that runs the
\* sync_inbox loop and the periodic scan (run_once, check_upcoming_loop).
Procs == {"push", "poll"}
Backends == {"postgres", "sqlite", "sqlite_psycopg2"}
MsgIds == {"m1", "m2", "m3"}
Uids == {"", "u1"}

\* Invite records as yielded by fetch_invites / built by _process_message.
\* m1 is [5,6); m2 is an update of the same event that overlaps it
\* ([5, none), counted as [5,65)), or a meeting that does not ([1,3)).
Requests ==
    { [method |-> "REQUEST", message_id |-> "m1", uid |-> "u1", join_url |-> Url,
       start_time |-> 5, end_time |-> 6],
      [method |-> "REQUEST", message_id |-> "m2", uid |-> "u1", join_url |-> Url,
       start_time |-> 5, end_time |-> NoTime],
      [method |-> "REQUEST", message_id |-> "m2", uid |-> "u1", join_url |-> Url,
       start_time |-> 1, end_time |-> 3],
      [method |-> "REQUEST", message_id |-> "m2", uid |-> "", join_url |-> Url,
       start_time |-> 1, end_time |-> 3] }

Malformed ==
    { [method |-> "REQUEST", message_id |-> "m1", uid |-> "u1", join_url |-> "",
       start_time |-> 5, end_time |-> NoTime],
      [method |-> "REQUEST", message_id |-> "m1", uid |-> "u1", join_url |-> Url,
       start_time |-> NoTime, end_time |-> NoTime] }

\* One CANCEL message per protocol identity, each a message of its own.
Cancels ==
    { [method |-> "CANCEL", message_id |-> "c-" \o u, uid |-> u, join_url |-> Url,
       start_time |-> 5, end_time |-> NoTime] : u \in Uids }

Invites == Requests \cup Malformed \cup Cancels

NoInvite ==
    [method |-> "-", message_id |-> "", uid |-> "", join_url |-> "",
     start_time |-> NoTime, end_time |-> NoTime]

VARIABLES
    meetings,   \* the meetings table: row i has id i
    backend,    \* store configuration chosen by MeetingCalendar.__init__
    now,        \* wall clock, minutes
    ctx,        \* per execution context: position and locals
    rsvps,      \* RSVP requests made to RSVPSender, in order
    jobs,       \* meeting ids that have a K8s Job meeting-bot-<id>
    invoked,    \* per meeting id: number of create_namespaced_job calls
    returned,   \* per message id: number of add_meeting calls that returned an id
    batch,      \* invites the running sync_inbox cycle has still to process
    mon         \* the IdleMonitor object, its thread and the mailbox it watches

vars == <<meetings, backend, now, ctx, rsvps, jobs, invoked, returned, batch, mon>>

Idle ==
    [pc |-> "idle", inv |-> NoInvite, status |-> "-",
     result |-> "-", rsvp |-> "-", target |-> NoId,
     upcoming |-> <<>>, spawned |-> FALSE]

\* ------------------------------------------------------------ the store

ExcludedStatuses == {"completed", "cancelled", "missed", "declined"}

check_conflicts_inclusive(ms, start_time, end_time, exclude_id) ==
    LET e == IF end_time = NoTime THEN start_time + DefaultDuration ELSE end_time
    IN  { i \in DOMAIN ms :
            /\ ms[i].status \notin ExcludedStatuses
            /\ ms[i].start_time <= e
            /\ \/ (ms[i].end_time # NoTime /\ ms[i].end_time >= start_time)
               \/ (ms[i].end_time = NoTime
                   /\ ms[i].start_time + DefaultDuration >= start_time)
            /\ (exclude_id # NoId => i # exclude_id) }

check_conflicts(ms, start_time, end_time, exclude_id) ==
    LET e == IF end_time = NoTime THEN start_time + DefaultDuration ELSE end_time
    IN  { i \in DOMAIN ms :
            /\ ms[i].status \notin ExcludedStatuses
            /\ ms[i].start_time < e
            /\ \/ (ms[i].end_time # NoTime /\ ms[i].end_time > start_time)
               \/ (ms[i].end_time = NoTime
                   /\ ms[i].start_time + DefaultDuration > start_time)
            /\ (exclude_id # NoId => i # exclude_id) }

add_meeting_empty_id_free(ms, m, be) ==
    IF m.message_id # "" /\ \E i \in DOMAIN ms : ms[i].message_id = m.message_id
    THEN [meetings |-> ms,
          result |-> IF be = "sqlite_psycopg2" THEN "raised" ELSE "duplicate"]
    ELSE [meetings |-> Append(ms, m), result |-> "inserted"]

add_meeting_upsert_uid(ms, m, be) ==
    IF \E i \in DOMAIN ms : ms[i].message_id = m.message_id
    THEN [meetings |-> ms,
          result |-> IF be = "sqlite_psycopg2" THEN "raised" ELSE "duplicate"]
    ELSE [meetings |-> Append([i \in DOMAIN ms |->
                                 IF m.uid # "" /\ ms[i].uid = m.uid
                                 THEN [ms[i] EXCEPT !.status = "cancelled"]
                                 ELSE ms[i]], m),
          result |-> "inserted"]

add_meeting_nounique(ms, m, be) ==
    [meetings |-> Append(ms, m), result |-> "inserted"]

add_meeting(ms, m, be) ==
    IF \E i \in DOMAIN ms : ms[i].message_id = m.message_id
    THEN [meetings |-> ms,
          result |-> IF be = "sqlite_psycopg2" THEN "raised" ELSE "duplicate"]
    ELSE [meetings |-> Append(ms, m), result |-> "inserted"]

update_status_all(ms, meeting_id, status) ==
    [i \in DOMAIN ms |-> [ms[i] EXCEPT !.status = status]]

update_status(ms, meeting_id, status) ==
    [i \in DOMAIN ms |->
        IF i = meeting_id THEN [ms[i] EXCEPT !.status = status] ELSE ms[i]]

get_by_uid_any(ms, uid) ==
    { i \in DOMAIN ms :
        \A j \in DOMAIN ms : ms[j].created_at <= ms[i].created_at }

get_by_uid_highest_id(ms, uid) ==
    IF uid = "" THEN {}
    ELSE { i \in DOMAIN ms :
             /\ ms[i].uid = uid
             /\ \A j \in DOMAIN ms : ms[j].uid = uid => j <= i }

\* "if not uid: return None", then ORDER BY created_at DESC LIMIT 1: any
\* row of greatest created_at.
get_by_uid(ms, uid) ==
    IF uid = "" THEN {}
    ELSE { i \in DOMAIN ms :
             /\ ms[i].uid = uid
             /\ \A j \in DOMAIN ms :
                   ms[j].uid = uid => ms[j].created_at <= ms[i].created_at }

IsUpcomingNoEndTest(m, t, minutes_ahead) ==
    /\ m.status = "pending"
    /\ \/ (m.start_time <= t + minutes_ahead /\ m.start_time >= t - GraceMinutes)
       \/ m.start_time < t

IsUpcomingAnyStatus(m, t, minutes_ahead) ==
    \/ (m.start_time <= t + minutes_ahead /\ m.start_time >= t - GraceMinutes)
    \/ (m.start_time < t /\ (m.end_time = NoTime \/ m.end_time > t))

IsUpcomingNoGrace(m, t, minutes_ahead) ==
    /\ m.status = "pending"
    /\ \/ (m.start_time <= t + minutes_ahead /\ m.start_time >= t)
       \/ (m.start_time < t /\ (m.end_time = NoTime \/ m.end_time > t))

IsUpcoming(m, t, minutes_ahead) ==
    /\ m.status = "pending"
    /\ \/ (m.start_time <= t + minutes_ahead /\ m.start_time >= t - GraceMinutes)
       \/ (m.start_time < t /\ (m.end_time = NoTime \/ m.end_time > t))

RECURSIVE SortByStart(_, _)
SortByStart(ms, S) ==
    IF S = {} THEN <<>>
    ELSE LET i == CHOOSE x \in S : \A y \in S :
                     \/ ms[x].start_time < ms[y].start_time
                     \/ (ms[x].start_time = ms[y].start_time /\ x <= y)
         IN  <<i>> \o SortByStart(ms, S \ {i})

get_upcoming(ms, t, minutes_ahead) ==
    SortByStart(ms, { i \in DOMAIN ms : IsUpcoming(ms[i], t, minutes_ahead) })

check_upcoming(ms, t) == get_upcoming(ms, t, JoinBeforeMinutes + 1)

\* -------------------------------------------------------- the scheduler

MeetingDefaultEnd(inv, status, t) ==
    [status |-> status, start_time |-> inv.start_time,
     end_time |-> IF inv.end_time = NoTime
                  THEN inv.start_time + DefaultDuration ELSE inv.end_time,
     message_id |-> inv.message_id, uid |-> inv.uid, created_at |-> t]

Meeting(inv, status, t) ==
    [status |-> status, start_time |-> inv.start_time, end_time |-> inv.end_time,
     message_id |-> inv.message_id, uid |-> inv.uid, created_at |-> t]

CancellableNarrow(status) == status = "pending"

Cancellable(status) == status \notin {"cancelled", "completed"}

should_rsvp_accept_only(result, status) ==
    result = "inserted" /\ status = "pending"

should_rsvp_always(result, status) == status \in {"pending", "declined"}

should_rsvp(result, status) ==
    result = "inserted" /\ status \in {"pending", "declined"}

JoinResultStatusStuck(ok) == IF ok THEN "bot_spawned" ELSE "joining"

JoinResultStatusRetry(ok) == IF ok THEN "bot_spawned" ELSE "pending"

JoinResultStatusTypo(ok) == IF ok THEN "bot_spawned" ELSE "failed"

JoinResultStatus(ok) == IF ok THEN "bot_spawned" ELSE "spawn_failed"

JoinNowSoonOnly(m, t) ==
    LET time_until == m.start_time - t
    IN  time_until < JoinBeforeMinutes + 1 /\ time_until >= 0

JoinNow(m, t) ==
    LET time_until == m.start_time - t
    IN  \/ (time_until < JoinBeforeMinutes + 1 /\ time_until >= 0)
        \/ (time_until < 0 /\ (m.end_time = NoTime \/ m.end_time > t))

\* IdleMonitor.__init__: not running, no connection, no cursor; the mailbox
\* is empty.  UIDs are 1, 2, ... in order of arrival; 0 stands for None.
MonInit ==
    [pc |-> "new", running |-> FALSE, conn |-> "none", last_seen_uid |-> 0,
     inbox |-> {}, top |-> 0, delivered |-> {}, handed |-> <<>>,
     gap |-> {}, connects |-> "never"]

\* State after MeetingScheduler.__init__ on an empty table.  Init is the
\* deployed configuration (DATABASE_URL set, psycopg2 installed); InitAll
\* ranges over every store configuration __init__ can select.
InitAll ==
    /\ meetings = <<>>
    /\ backend \in Backends
    /\ now = 0
    /\ ctx = [p \in Procs |-> Idle]
    /\ rsvps = <<>>
    /\ jobs = {}
    /\ invoked = [i \in 1..MaxMeetings |-> 0]
    /\ returned = [m \in MsgIds |-> 0]
    /\ batch = <<>>
    /\ mon = MonInit

\* _handle_cancellation up to and including get_by_uid; an invite without
\* uid returns before the lookup.
HandleCancellation(p, inv) ==
    /\ ctx[p].pc = "idle"
    /\ inv.method = "CANCEL"
    /\ LET found == IF inv.uid = "" THEN {} ELSE get_by_uid(meetings, inv.uid)
           base == [Idle EXCEPT !.inv = inv]
       IN  IF found = {}
           THEN ctx' = [ctx EXCEPT ![p] =
                          [base EXCEPT !.pc = "ret", !.result = "orphan"]]
           ELSE \E e \in found :
                  ctx' = [ctx EXCEPT ![p] =
                     IF Cancellable(meetings[e].status)
                     THEN [base EXCEPT !.pc = "cancel", !.target = e]
                     ELSE [base EXCEPT !.pc = "ret", !.result = "terminal"]]
    /\ UNCHANGED <<meetings, backend, now, rsvps, jobs, invoked, returned>>

\* _handle_cancellation: update_status(existing.id, "cancelled").
CancelUpdate(p) ==
    /\ ctx[p].pc = "cancel"
    /\ meetings' = update_status(meetings, ctx[p].target, "cancelled")
    /\ ctx' = [ctx EXCEPT ![p] =
                 [Idle EXCEPT !.pc = "ret", !.result = "cancelled"]]
    /\ UNCHANGED <<backend, now, rsvps, jobs, invoked, returned>>

ActionableWithStart(inv) == inv.start_time # NoTime

\* The two skips: "if not invite.join_url", "if not invite.start_time".
Actionable(inv) == inv.join_url # "" /\ inv.start_time # NoTime

AlreadyEndedInverted(inv, t) == inv.end_time # NoTime /\ inv.end_time > t

\* "if invite.end_time and invite.end_time < now".
AlreadyEnded(inv, t) == inv.end_time # NoTime /\ inv.end_time < t

\* Loop body of sync_inbox for a non-CANCEL invite: the status of the
\* Meeting it builds, "skipped" when it builds none.
sync_inbox_status(ms, inv, t) ==
    IF ~Actionable(inv) THEN "skipped"
    ELSE IF AlreadyEnded(inv, t) THEN "missed"
    ELSE IF check_conflicts(ms, inv.start_time, inv.end_time, NoId) # {}
    THEN "declined"
    ELSE "pending"

process_invite_status_no_missed(ms, inv, t) ==
    IF inv.join_url = "" THEN "skipped"
    ELSE IF inv.start_time = NoTime THEN "skipped"
    ELSE IF check_conflicts(ms, inv.start_time, inv.end_time, NoId) # {}
    THEN "declined"
    ELSE "pending"

\* The same for process_invite.
process_invite_status(ms, inv, t) ==
    IF inv.join_url = "" THEN "skipped"
    ELSE IF inv.start_time = NoTime THEN "skipped"
    ELSE IF inv.end_time # NoTime /\ inv.end_time < t THEN "missed"
    ELSE IF check_conflicts(ms, inv.start_time, inv.end_time, NoId) # {}
    THEN "declined"
    ELSE "pending"

\* The RSVP each path asks for once add_meeting has returned an id.
sync_inbox_rsvp(status) ==
    IF status = "declined" THEN "decline"
    ELSE IF status = "pending" THEN "accept"
    ELSE "none"

process_invite_rsvp(status) ==
    IF status = "declined" THEN "decline"
    ELSE IF status = "pending" THEN "accept"
    ELSE "none"

\* Loop body of sync_inbox / process_invite for a non-CANCEL invite, up to
\* and including check_conflicts and the construction of the Meeting.
Classify(p, inv) ==
    /\ ctx[p].pc = "idle"
    /\ inv.method # "CANCEL"
    /\ LET base == [Idle EXCEPT !.inv = inv]
           st == IF p = "push" THEN process_invite_status(meetings, inv, now)
                 ELSE sync_inbox_status(meetings, inv, now)
       IN  ctx' = [ctx EXCEPT ![p] =
             IF st = "skipped"
             THEN [Idle EXCEPT !.pc = "ret", !.result = "skipped"]
             ELSE [base EXCEPT !.pc = "add", !.status = st]]
    /\ UNCHANGED <<meetings, backend, now, rsvps, jobs, invoked, returned>>

after_rsvp_rollback(r, sent) ==
    IF r.result = "inserted" /\ ~sent
    THEN [meetings |-> SubSeq(r.meetings, 1, Len(r.meetings) - 1),
          result |-> "raised"]
    ELSE r

\* "if self.rsvp: self.rsvp.accept(invite)": the value send_rsvp returns is
\* dropped, and send_rsvp catches every exception of the SMTP exchange.
after_rsvp(r, sent) == r

\* Outcomes of send_rsvp: False at once for an invite without uid.
rsvp_outcomes(inv) == IF inv.uid = "" THEN {FALSE} ELSE BOOLEAN

\* add_meeting and, when it returned an id, the RSVP request.  Of the
\* invite only the message id is kept afterwards: the Meeting the handler
\* goes on to read is the row just inserted.
AddMeeting(p) ==
    /\ ctx[p].pc = "add"
    /\ Len(meetings) < MaxMeetings
    /\ \E sent \in rsvp_outcomes(ctx[p].inv) :
       LET a == add_meeting(meetings,
                            Meeting(ctx[p].inv, ctx[p].status, now),
                            backend)
           kind == IF p = "push" THEN process_invite_rsvp(ctx[p].status)
                   ELSE sync_inbox_rsvp(ctx[p].status)
           asked == should_rsvp(a.result, ctx[p].status) /\ kind # "none"
           r == IF asked THEN after_rsvp(a, sent) ELSE a
           mid == ctx[p].inv.message_id
       IN  /\ (~asked => sent = FALSE)
           /\ meetings' = r.meetings
           /\ returned' = IF r.result = "inserted"
                          THEN [returned EXCEPT ![mid] = @ + 1] ELSE returned
           /\ IF asked
              THEN rsvps' = Append(rsvps,
                        [message_id |-> mid,
                         accepted |-> (kind = "accept")])
              ELSE rsvps' = rsvps
           /\ ctx' = [ctx EXCEPT ![p] =
                        [Idle EXCEPT !.pc = "added",
                                     !.inv = [NoInvite EXCEPT !.message_id = mid],
                                     !.status = ctx[p].status,
                                     !.result = r.result,
                                     !.rsvp = IF ~asked THEN "-"
                                              ELSE IF sent THEN "sent"
                                              ELSE "failed",
                                     !.target = IF r.result = "inserted"
                                                THEN Len(meetings) + 1 ELSE NoId]]
    /\ UNCHANGED <<backend, now, jobs, invoked>>

\* What follows add_meeting: process_invite's join shortcut (the message id
\* of the record just inserted stays in the locals), or the end of the
\* handler.
AfterAdd(p) ==
    /\ ctx[p].pc = "added"
    /\ ctx' = [ctx EXCEPT ![p] =
         IF /\ p = "push"
            /\ ctx[p].result = "inserted"
            /\ ctx[p].status = "pending"
            /\ JoinNow(meetings[ctx[p].target], now)
         THEN [Idle EXCEPT !.pc = "scan",
                           !.inv = ctx[p].inv,
                           !.upcoming = check_upcoming(meetings, now)]
         ELSE Idle]
    /\ UNCHANGED <<meetings, backend, now, rsvps, jobs, invoked, returned>>

\* _check_and_join_upcoming / run_once: check_upcoming().
ScanBegin(p) ==
    /\ p = "poll"
    /\ ctx[p].pc = "idle"
    /\ ctx' = [ctx EXCEPT ![p] =
                 [Idle EXCEPT !.pc = "scan",
                              !.upcoming = check_upcoming(meetings, now)]]
    /\ UNCHANGED <<meetings, backend, now, rsvps, jobs, invoked, returned>>

\* trigger_join: update_status(meeting.id, "joining").
TriggerJoinSetJoining(p) ==
    /\ ctx[p].pc = "scan"
    /\ ctx[p].upcoming # <<>>
    /\ LET id == Head(ctx[p].upcoming)
       IN  /\ meetings' = update_status(meetings, id, "joining")
           /\ ctx' = [ctx EXCEPT ![p].pc = "create", ![p].target = id]
    /\ UNCHANGED <<backend, now, rsvps, jobs, invoked, returned>>

\* trigger_join: create_namespaced_job(name = meeting-bot-<id>).  The API
\* rejects a second Job of the same name and may fail for any other reason.
TriggerJoinCreateJob(p) ==
    /\ ctx[p].pc = "create"
    /\ LET id == ctx[p].target
       IN  /\ invoked' = [invoked EXCEPT ![id] = @ + 1]
           /\ \E ok \in BOOLEAN :
                /\ ok => id \notin jobs
                /\ jobs' = IF ok THEN jobs \cup {id} ELSE jobs
                /\ ctx' = [ctx EXCEPT ![p].pc = "result", ![p].spawned = ok]
    /\ UNCHANGED <<meetings, backend, now, rsvps, returned>>

\* trigger_join: update_status(meeting.id, "bot_spawned" | "spawn_failed").
TriggerJoinResult(p) ==
    /\ ctx[p].pc = "result"
    /\ meetings' = update_status(meetings, ctx[p].target,
                                 JoinResultStatus(ctx[p].spawned))
    /\ ctx' = [ctx EXCEPT ![p].pc = "scan", ![p].target = NoId,
                          ![p].spawned = FALSE,
                          ![p].upcoming = Tail(ctx[p].upcoming)]
    /\ UNCHANGED <<backend, now, rsvps, jobs, invoked, returned>>

\* The handler returns to its caller.
Return(p) ==
    /\ \/ ctx[p].pc = "ret"
       \/ (ctx[p].pc = "scan" /\ ctx[p].upcoming = <<>>)
    /\ ctx' = [ctx EXCEPT ![p] = Idle]
    /\ UNCHANGED <<meetings, backend, now, rsvps, jobs, invoked, returned>>

\* The recorder outside the engine marks a spawned meeting completed.
RecorderComplete ==
    /\ \E i \in DOMAIN meetings :
         /\ meetings[i].status = "bot_spawned"
         /\ meetings' = update_status(meetings, i, "completed")
    /\ UNCHANGED <<backend, now, ctx, rsvps, jobs, invoked, returned>>

Tick ==
    /\ now < MaxTicks * TickLen
    /\ now' = now + TickLen
    /\ UNCHANGED <<meetings, backend, ctx, rsvps, jobs, invoked, returned>>

\* Invites arrive one by one in any order; the batch of a sync_inbox cycle
\* is not tracked here.
Next ==
    /\ \/ \E p \in Procs, inv \in Invites :
            HandleCancellation(p, inv)
       \/ \E p \in Procs : CancelUpdate(p)
       \/ \E p \in Procs, inv \in Invites :
            Classify(p, inv)
       \/ \E p \in Procs : AddMeeting(p)
       \/ \E p \in Procs : AfterAdd(p)
       \/ \E p \in Procs : ScanBegin(p)
       \/ \E p \in Procs : TriggerJoinSetJoining(p)
       \/ \E p \in Procs : TriggerJoinCreateJob(p)
       \/ \E p \in Procs : TriggerJoinResult(p)
       \/ \E p \in Procs : Return(p)
       \/ RecorderComplete
       \/ Tick
    /\ UNCHANGED <<batch, mon>>

Init == InitAll /\ backend = "postgres"

\* Both contexts run concurrently against the PostgreSQL store.
Spec == Init /\ [][Next]_vars

\* One context at a time (a handler runs to completion before the other
\* context starts one), over every store configuration.
Exclusive == \E p \in Procs : \A q \in Procs \ {p} : ctx[q].pc = "idle"

SeqNext == Next /\ Exclusive'

SeqSpec == InitAll /\ [][SeqNext]_vars

\* ---------------------------------------------- a table that holds records
\* The scheduler started on a table that already holds up to two records
\* (10:00 is minute 600), at midnight or at 12:00, receiving invite m3.
ProbeStatuses ==
    {"pending", "joining", "completed", "cancelled", "missed", "declined"}

ProbeWindows == { <<600, 660>>, <<630, 645>>, <<660, 720>>, <<600, NoTime>> }

ProbeRows ==
    { [status |-> st, start_time |-> w[1], end_time |-> w[2],
       message_id |-> "m1", uid |-> "u1", created_at |-> 0] :
          st \in ProbeStatuses, w \in ProbeWindows }

ProbeStores ==
    {<<>>} \cup { <<a>> : a \in ProbeRows }
           \cup { <<a, [b EXCEPT !.message_id = "m2"]>> : a \in ProbeRows, b \in ProbeRows }

ProbeNows == {0, 720}

ProbeCandidates ==
    { <<630, 690>>, <<660, 720>>, <<615, 630>>, <<600, NoTime>>, <<720, NoTime>> }

ProbeInvites ==
    { [method |-> "REQUEST", message_id |-> "m3", uid |-> "u1", join_url |-> Url,
       start_time |-> w[1], end_time |-> w[2]] : w \in ProbeCandidates }

InitStore ==
    /\ meetings \in ProbeStores
    /\ backend = "postgres"
    /\ now \in ProbeNows
    /\ ctx = [p \in Procs |-> Idle]
    /\ rsvps = <<>>
    /\ jobs = {}
    /\ invoked = [i \in 1..MaxMeetings |-> 0]
    /\ returned = [m \in MsgIds |->
                     IF \E i \in DOMAIN meetings : meetings[i].message_id = m
                     THEN 1 ELSE 0]
    /\ batch = <<>>
    /\ mon = MonInit

\* A call of MeetingCalendar.check_conflicts; the list it returns is kept in
\* the caller's locals.
CheckConflictsCall(p, start_time, end_time, exclude_id) ==
    /\ ctx[p].pc = "idle"
    /\ ctx' = [ctx EXCEPT ![p] =
          [Idle EXCEPT !.pc = "ret", !.result = "conflicts",
                       !.inv = [NoInvite EXCEPT !.start_time = start_time,
                                                !.end_time = end_time],
                       !.target = exclude_id,
                       !.upcoming = SortByStart(meetings,
                           check_conflicts(meetings, start_time, end_time,
                                           exclude_id))]]
    /\ UNCHANGED <<meetings, backend, now, rsvps, jobs, invoked, returned>>

StoreNext ==
    /\ \/ \E p \in Procs, w \in ProbeCandidates, x \in {NoId, 1, 2} :
             CheckConflictsCall(p, w[1], w[2], x)
       \/ \E p \in Procs, inv \in ProbeInvites : Classify(p, inv)
       \/ \E p \in Procs : AddMeeting(p)
       \/ \E p \in Procs : AfterAdd(p)
       \/ \E p \in Procs : TriggerJoinSetJoining(p)
       \/ \E p \in Procs : TriggerJoinCreateJob(p)
       \/ \E p \in Procs : TriggerJoinResult(p)
       \/ \E p \in Procs : Return(p)
    /\ Exclusive'
    /\ UNCHANGED <<batch, mon>>

StoreSpec == InitStore /\ [][StoreNext]_vars

\* ------------------------------------------------- the sync_inbox cycle
\* The mailbox in order of arrival; fetch_invites yields the messages of the
\* last 14 days in that order, read or unread, in every cycle.
Mailbox ==
    << [method |-> "REQUEST", message_id |-> "m1", uid |-> "u1", join_url |-> Url,
        start_time |-> 5, end_time |-> 6],
       [method |-> "REQUEST", message_id |-> "m2", uid |-> "", join_url |-> Url,
        start_time |-> 1, end_time |-> 3],
       [method |-> "CANCEL", message_id |-> "c-u1", uid |-> "u1", join_url |-> Url,
        start_time |-> 5, end_time |-> NoTime] >>

\* sync_inbox connects and starts iterating over the messages arrived so far.
SyncInboxBegin ==
    /\ ctx["poll"].pc = "idle"
    /\ batch = <<>>
    /\ \E n \in 1..Len(Mailbox) : batch' = SubSeq(Mailbox, 1, n)
    /\ UNCHANGED <<meetings, backend, now, ctx, rsvps, jobs, invoked, returned>>

\* One sync_inbox cycle after the other in the poll context.  The for loop
\* sits in a try/finally without except: an exception raised for one invite
\* leaves the loop, and run's handler around run_once ends the cycle.
BatchNext ==
    /\ \/ SyncInboxBegin
       \/ /\ batch # <<>>
          /\ HandleCancellation("poll", Head(batch))
          /\ batch' = Tail(batch)
       \/ /\ batch # <<>>
          /\ Classify("poll", Head(batch))
          /\ batch' = Tail(batch)
       \/ CancelUpdate("poll") /\ UNCHANGED batch
       \/ AddMeeting("poll") /\ UNCHANGED batch
       \/ /\ AfterAdd("poll")
          /\ batch' = IF ctx["poll"].result = "raised" THEN <<>> ELSE batch
       \/ Return("poll") /\ UNCHANGED batch
       \/ Tick /\ UNCHANGED batch
    /\ UNCHANGED mon

BatchSpec == InitAll /\ [][BatchNext]_vars

\* ------------------------------------------------------------ poll mode
\* run(): one run_once cycle after the other in the poll context, nothing
\* else running.  batch holds what the cycle has still to do: the invites
\* fetch_invites has yet to yield, then NoInvite for the join scan that
\* follows sync_inbox.  An exception that leaves run_once (run catches it and
\* sleeps until the next cycle) empties batch.

\* run_once: sync_inbox connects, or fails to and returns 0.
RunOnceBegin ==
    /\ ctx["poll"].pc = "idle"
    /\ batch = <<>>
    /\ \E connected \in BOOLEAN :
         IF connected
         THEN \E n \in 0..Len(Mailbox) :
                 batch' = Append(SubSeq(Mailbox, 1, n), NoInvite)
         ELSE batch' = <<NoInvite>>
    /\ UNCHANGED <<meetings, backend, now, ctx, rsvps, jobs, invoked, returned>>

\* fetch_invites raises while fetching the next message.
FetchRaises ==
    /\ ctx["poll"].pc = "idle"
    /\ batch # <<>>
    /\ Head(batch) # NoInvite
    /\ batch' = <<>>
    /\ UNCHANGED <<meetings, backend, now, ctx, rsvps, jobs, invoked, returned>>

\* run_once: check_upcoming after sync_inbox returned.
RunOnceScan ==
    /\ batch = <<NoInvite>>
    /\ ScanBegin("poll")
    /\ batch' = <<>>

PollNext ==
    /\ \/ RunOnceBegin
       \/ FetchRaises
       \/ /\ batch # <<>>
          /\ Head(batch) # NoInvite
          /\ HandleCancellation("poll", Head(batch))
          /\ batch' = Tail(batch)
       \/ /\ batch # <<>>
          /\ Head(batch) # NoInvite
          /\ Classify("poll", Head(batch))
          /\ batch' = Tail(batch)
       \/ CancelUpdate("poll") /\ UNCHANGED batch
       \/ AddMeeting("poll") /\ UNCHANGED batch
       \/ /\ AfterAdd("poll")
          /\ batch' = IF ctx["poll"].result = "raised" THEN <<>> ELSE batch
       \/ RunOnceScan
       \/ TriggerJoinSetJoining("poll") /\ UNCHANGED batch
       \/ TriggerJoinCreateJob("poll") /\ UNCHANGED batch
       \/ TriggerJoinResult("poll") /\ UNCHANGED batch
       \/ Return("poll") /\ UNCHANGED batch
       \/ Tick /\ UNCHANGED batch
    /\ UNCHANGED mon

PollSpec == InitAll /\ [][PollNext]_vars

\* ------------------------------------------------ the calendar by itself
\* A client of MeetingCalendar calling its methods one after the other at
\* 12:00 (minute 720): add_meeting with Meeting objects built at 11:40 and
\* 11:50, update_status on any id, get_upcoming, get_by_uid.
CalendarNow == 720

CalendarWindows ==
    { <<600, NoTime>>, <<600, 660>>, <<715, 718>>, <<721, 780>>, <<724, NoTime>>,
      <<800, 860>> }

CalendarMeetings ==
    { [status |-> "pending", start_time |-> w[1], end_time |-> w[2],
       message_id |-> k[1], uid |-> k[2], created_at |-> k[3]] :
          w \in CalendarWindows,
          k \in { <<"m1", "u1", 700>>, <<"m2", "u1", 710>>, <<"m3", "", 710>> } }

CalendarUids == {"", "u1", "u2"}

CalendarHorizons == {JoinBeforeMinutes + 1, DefaultMinutesAhead}

CalendarInit ==
    /\ meetings = <<>>
    /\ backend = "postgres"
    /\ now = CalendarNow
    /\ ctx = [p \in Procs |-> Idle]
    /\ rsvps = <<>>
    /\ jobs = {}
    /\ invoked = [i \in 1..MaxMeetings |-> 0]
    /\ returned = [m \in MsgIds |-> 0]
    /\ batch = <<>>
    /\ mon = MonInit

AddMeetingCall(m) ==
    /\ ctx["poll"].pc = "idle"
    /\ Len(meetings) < MaxMeetings
    /\ LET a == add_meeting(meetings, m, backend)
       IN  /\ meetings' = a.meetings
           /\ returned' = IF a.result = "inserted"
                          THEN [returned EXCEPT ![m.message_id] = @ + 1]
                          ELSE returned
    /\ UNCHANGED <<backend, now, ctx, rsvps, jobs, invoked>>

\* update_status(meeting_id, status); the arguments stay in the caller's
\* locals.
UpdateStatusCall(p, meeting_id, status) ==
    /\ ctx[p].pc = "idle"
    /\ meetings' = update_status(meetings, meeting_id, status)
    /\ ctx' = [ctx EXCEPT ![p] =
          [Idle EXCEPT !.pc = "ret", !.result = "updated",
                       !.target = meeting_id, !.status = status]]
    /\ UNCHANGED <<backend, now, rsvps, jobs, invoked, returned>>

\* get_upcoming(minutes_ahead); the argument is kept in target, the list
\* returned in upcoming.
GetUpcomingCall(p, minutes_ahead) ==
    /\ ctx[p].pc = "idle"
    /\ ctx' = [ctx EXCEPT ![p] =
          [Idle EXCEPT !.pc = "ret", !.result = "upcoming",
                       !.target = minutes_ahead,
                       !.upcoming = get_upcoming(meetings, now, minutes_ahead)]]
    /\ UNCHANGED <<meetings, backend, now, rsvps, jobs, invoked, returned>>

\* get_by_uid(uid); the record returned is kept in upcoming (empty for None).
GetByUidCall(p, uid) ==
    /\ ctx[p].pc = "idle"
    /\ LET found == get_by_uid(meetings, uid)
           base == [Idle EXCEPT !.pc = "ret", !.result = "by_uid",
                                !.inv = [NoInvite EXCEPT !.uid = uid]]
       IN  IF found = {}
           THEN ctx' = [ctx EXCEPT ![p] = base]
           ELSE \E e \in found :
                  ctx' = [ctx EXCEPT ![p] = [base EXCEPT !.upcoming = <<e>>]]
    /\ UNCHANGED <<meetings, backend, now, rsvps, jobs, invoked, returned>>

CalendarNext ==
    /\ \/ \E m \in CalendarMeetings : AddMeetingCall(m)
       \/ \E i \in 1..MaxMeetings, st \in {"joining", "cancelled"} :
             UpdateStatusCall("poll", i, st)
       \/ \E h \in CalendarHorizons : GetUpcomingCall("poll", h)
       \/ \E u \in CalendarUids : GetByUidCall("poll", u)
       \/ Return("poll")
    /\ UNCHANGED <<batch, mon>>

CalendarSpec == CalendarInit /\ [][CalendarNext]_vars

\* ------------------------------------------- invites without Message-ID
\* msg.get("Message-ID", "") gives the empty string for a message without
\* that header.  Three distinct invites of that kind and one ordinary one
\* arrive, one handler at a time; an invite arrives only while no stored
\* record has its uid, so an invite absorbed is never a re-delivery.
Headerless ==
    { [method |-> "REQUEST", message_id |-> "", uid |-> "u1", join_url |-> Url,
       start_time |-> 5, end_time |-> 6],
      [method |-> "REQUEST", message_id |-> "", uid |-> "u2", join_url |-> Url,
       start_time |-> 1, end_time |-> 3],
      [method |-> "REQUEST", message_id |-> "", uid |-> "u3", join_url |-> Url,
       start_time |-> 5, end_time |-> NoTime],
      [method |-> "REQUEST", message_id |-> "m1", uid |-> "u4", join_url |-> Url,
       start_time |-> 1, end_time |-> 3] }

HeaderlessInit ==
    /\ meetings = <<>>
    /\ backend \in Backends
    /\ now = 0
    /\ ctx = [p \in Procs |-> Idle]
    /\ rsvps = <<>>
    /\ jobs = {}
    /\ invoked = [i \in 1..MaxMeetings |-> 0]
    /\ returned = [m \in MsgIds \cup {""} |-> 0]
    /\ batch = <<>>
    /\ mon = MonInit

HeaderlessNext ==
    /\ \/ \E p \in Procs, inv \in Headerless :
            /\ \A i \in DOMAIN meetings : meetings[i].uid # inv.uid
            /\ Classify(p, inv)
       \/ \E p \in Procs : AddMeeting(p)
       \/ \E p \in Procs : AfterAdd(p)
       \/ \E p \in Procs : TriggerJoinSetJoining(p)
       \/ \E p \in Procs : TriggerJoinCreateJob(p)
       \/ \E p \in Procs : TriggerJoinResult(p)
       \/ \E p \in Procs : Return(p)
       \/ Tick
    /\ Exclusive'
    /\ UNCHANGED <<batch, mon>>

HeaderlessSpec == HeaderlessInit /\ [][HeaderlessNext]_vars

\* ------------------------------------------------- the push supervisor
\* IdleMonitor (idle_monitor.py): the thread inside run() and _idle_loop(),
\* the caller of stop(), the IMAP server and the mailbox.  conn is the state
\* of self.mail: "none" (None, or an object that never logged in), "up",
\* "eof" (the server closed the connection), "shut" (stop() shut the socket
\* down).  delivered, handed, gap and connects are history: the UIDs passed
\* to _process_message so far, those passed by the latest catch-up, the UIDs
\* that arrived while a once-connected supervisor had no connection, and
\* whether connect has succeeded never, once or again after the first time.

RECURSIVE SortedUids(_)
SortedUids(S) ==
    IF S = {} THEN <<>>
    ELSE LET u == CHOOSE x \in S : \A y \in S : x <= y
         IN  <<u>> \o SortedUids(S \ {u})

SeqToSet(q) == { q[k] : k \in DOMAIN q }

\* _get_latest_uid: the last UID of SEARCH ALL, None for an empty mailbox.
get_latest_uid(inbox) ==
    IF inbox = {} THEN 0 ELSE CHOOSE x \in inbox : \A y \in inbox : y <= x

\* The UIDs _process_new_messages hands to _process_message, in order: the
\* search result after the position of since_uid, the whole search result
\* when since_uid is None or is not in it.
new_messages(inbox, since_uid) ==
    IF since_uid # 0 /\ since_uid \in inbox
    THEN SortedUids({ u \in inbox : u > since_uid })
    ELSE SortedUids(inbox)

\* run, after a successful connect: last_seen_uid = _get_latest_uid().
reconnect_cursor(inbox, last_seen_uid) == get_latest_uid(inbox)

\* Outcomes of send on the socket: it raises after stop() shut the socket
\* down, and may or may not raise after the server closed the connection.
send_raises(conn) ==
    IF conn = "up" THEN {FALSE} ELSE IF conn = "eof" THEN BOOLEAN ELSE {TRUE}

connected_again(c) == IF c = "never" THEN "once" ELSE "again"

\* run(): self.running = True, signal handlers installed.
MonRun ==
    /\ mon.pc = "new"
    /\ mon' = [mon EXCEPT !.pc = "run", !.running = TRUE]

\* run(): one pass of "while self.running" up to the call of _idle_loop; a
\* failed connect sleeps reconnect_delay and tries again.
MonConnect ==
    /\ mon.pc = "run"
    /\ \/ /\ ~mon.running
          /\ mon' = [mon EXCEPT !.pc = "returned", !.conn = "none"]
       \/ /\ mon.running
          /\ \E ok \in BOOLEAN :
               mon' = IF ok
                      THEN [mon EXCEPT !.pc = "idle", !.conn = "up",
                               !.connects = connected_again(@),
                               !.last_seen_uid =
                                   reconnect_cursor(mon.inbox, mon.last_seen_uid)]
                      ELSE [mon EXCEPT !.conn = "none"]

\* _idle_loop: the loop test, the IDLE command and its continuation line.
MonIdleIssue ==
    /\ mon.pc = "idle"
    /\ \/ /\ ~mon.running
          /\ mon' = [mon EXCEPT !.pc = "left", !.handed = <<>>]
       \/ /\ mon.running
          /\ mon.conn = "up"
          /\ mon' = [mon EXCEPT !.pc = "wait", !.handed = <<>>]
       \/ /\ mon.running
          /\ mon.conn # "up"
          /\ \E raised \in (IF mon.conn = "none" THEN {TRUE} ELSE send_raises(mon.conn)) :
               mon' = [mon EXCEPT !.pc = IF raised THEN "except" ELSE "left",
                                  !.handed = <<>>]

\* _idle_loop: the wait ends on EXISTS, on the socket timeout, on a tagged
\* line, on end of stream or on any exception of readline.
MonIdleWait ==
    /\ mon.pc = "wait"
    /\ mon' = [mon EXCEPT !.pc = "done"]

\* _idle_loop: send(b'DONE\r\n').
MonSendDone ==
    /\ mon.pc = "done"
    /\ \E raised \in send_raises(mon.conn) :
         mon' = [mon EXCEPT !.pc = IF raised THEN "except" ELSE "tag"]

\* _idle_loop: "while True" reading up to the tagged response.  At end of
\* stream readline returns b'' at every call (or the TLS layer raises), and
\* the loop has no other exit.
MonReadTag ==
    /\ mon.pc = "tag"
    /\ \/ /\ mon.conn = "up"
          /\ mon' = [mon EXCEPT !.pc = "process"]
       \/ /\ mon.conn # "up"
          /\ \E raised \in BOOLEAN :
               mon' = [mon EXCEPT !.pc = IF raised THEN "except" ELSE "spin"]

\* _idle_loop: _process_new_messages(self.last_seen_uid); every exception
\* is caught inside.
MonProcess ==
    /\ mon.pc = "process"
    /\ LET uids == IF mon.conn = "up"
                   THEN new_messages(mon.inbox, mon.last_seen_uid) ELSE <<>>
       IN  mon' = [mon EXCEPT
                     !.pc = "idle",
                     !.handed = uids,
                     !.delivered = @ \cup SeqToSet(uids),
                     !.last_seen_uid = IF uids = <<>> THEN @ ELSE uids[Len(uids)]]

\* _idle_loop: "except Exception": sleep, disconnect, connect, next pass.
MonExcept ==
    /\ mon.pc = "except"
    /\ \/ /\ ~mon.running
          /\ mon' = [mon EXCEPT !.pc = "idle"]
       \/ /\ mon.running
          /\ \E ok \in BOOLEAN :
               mon' = [mon EXCEPT !.pc = "idle",
                                  !.conn = IF ok THEN "up" ELSE "none",
                                  !.connects = IF ok THEN connected_again(@)
                                               ELSE @]

\* run(), after _idle_loop returned: disconnect and sleep when still running.
MonAfterIdle ==
    /\ mon.pc = "left"
    /\ mon' = [mon EXCEPT !.pc = "run",
                          !.conn = IF mon.running THEN "none" ELSE @]

\* stop(): the flag, then sock.shutdown(2) when there is a connection.
MonStop ==
    /\ mon.running
    /\ mon' = [mon EXCEPT !.running = FALSE,
                          !.conn = IF @ \in {"up", "eof"} THEN "shut" ELSE @]

\* A calendar message arrives in the mailbox.
MailArrives ==
    /\ mon.top < MaxUid
    /\ mon' = [mon EXCEPT !.top = @ + 1,
                          !.inbox = @ \cup {mon.top + 1},
                          !.gap = IF mon.connects # "never" /\ mon.conn \in {"none", "eof"}
                                  THEN @ \cup {mon.top + 1} ELSE @]

\* A message leaves the search result (deleted or moved by the mailbox owner).
MailRemoved ==
    /\ \E u \in mon.inbox : mon' = [mon EXCEPT !.inbox = @ \ {u}]

\* The server closes the connection.
ServerCloses ==
    /\ mon.conn = "up"
    /\ mon' = [mon EXCEPT !.conn = "eof"]

MonNext ==
    /\ \/ MonRun
       \/ MonConnect
       \/ MonIdleIssue
       \/ MonIdleWait
       \/ MonSendDone
       \/ MonReadTag
       \/ MonProcess
       \/ MonExcept
       \/ MonAfterIdle
       \/ MonStop
       \/ MailArrives
       \/ MailRemoved
       \/ ServerCloses
    /\ UNCHANGED <<meetings, backend, now, ctx, rsvps, jobs, invoked, returned, batch>>

MonSpec == Init /\ [][MonNext]_vars

\* ------------------------------------------------------------ properties

Rows(m) == { i \in DOMAIN meetings : meetings[i].message_id = m }

RsvpsFor(r, m) == { k \in DOMAIN r : r[k].message_id = m }

EffectiveEnd(m) ==
    IF m.end_time = NoTime THEN m.start_time + DefaultDuration ELSE m.end_time

Overlap(a, b) ==
    a.start_time < EffectiveEnd(b) /\ b.start_time < EffectiveEnd(a)

\* Rows of protocol identity x with the greatest created_at.
LatestByUid(x) ==
    { i \in DOMAIN meetings :
        /\ meetings[i].uid = x
        /\ \A j \in DOMAIN meetings :
              meetings[j].uid = x => meetings[j].created_at <= meetings[i].created_at }

TerminalStatuses ==
    {"cancelled", "missed", "declined", "bot_spawned", "joined", "spawn_failed"}

\* C1: the join trigger (create_namespaced_job) is invoked exactly once for a
\* due meeting, never a second time, whatever the interleaving of the
\* periodic scan and the intake shortcut.
TriggerInvokedOnce ==
    \A i \in DOMAIN meetings :
        /\ invoked[i] <= 1
        /\ (meetings[i].status \in {"bot_spawned", "spawn_failed"} => invoked[i] = 1)

\* C2: no step of intake, cancellation or scan changes the status of a record
\* that is cancelled, missed, declined, joined (bot_spawned) or spawn_failed;
\* the recorder's joined -> completed is not a step of the engine.
TerminalMonotonic ==
    [][\A i \in DOMAIN meetings :
          meetings[i].status \in TerminalStatuses =>
              \/ meetings'[i].status = meetings[i].status
              \/ (meetings[i].status = "bot_spawned"
                  /\ meetings'[i].status = "completed")]_vars

\* C3: an ingestion whose message_id is already stored inserts nothing,
\* changes no record, sends no RSVP and starts no join; there is one record
\* and at most one RSVP per message_id.
IdempotentIngestion ==
    [][\A p \in Procs :
          /\ (/\ ctx[p].pc = "add"
              /\ ctx'[p].pc = "added"
              /\ Rows(ctx[p].inv.message_id) # {})
                => /\ meetings' = meetings
                   /\ rsvps' = rsvps
                   /\ ctx'[p].result # "inserted"
                   /\ Cardinality(Rows(ctx[p].inv.message_id)) = 1
          /\ (/\ ctx[p].pc = "added"
              /\ ctx[p].result # "inserted"
              /\ ctx'[p] # ctx[p])
                => /\ ctx'[p] = Idle
                   /\ UNCHANGED <<meetings, rsvps, jobs, invoked>>
          /\ \A m \in MsgIds : Cardinality(RsvpsFor(rsvps', m)) <= 1]_vars

\* C3 witness: the second ingestion of a stored invite reached add_meeting
\* with status declined because its conflict check saw its own first record.
SecondIngestionAbsorbed ==
    \E p \in Procs : \E i \in DOMAIN meetings :
        /\ ctx[p].pc = "added"
        /\ ctx[p].result \in {"duplicate", "raised"}
        /\ ctx[p].status = "declined"
        /\ meetings[i].message_id = ctx[p].inv.message_id
        /\ meetings[i].status = "pending"
        /\ Len(meetings) = 1

\* C4: for every message_id at most one add_meeting call returned an id, at
\* most one row exists and at most one RSVP was requested.
AtMostOneRowPerMessage ==
    \A m \in MsgIds :
        /\ returned[m] <= 1
        /\ Cardinality(Rows(m)) <= 1
        /\ Cardinality(RsvpsFor(rsvps, m)) <= 1

\* C4 witness: both contexts passed the conflict check for the same message
\* before either inserted; one add_meeting returned an id, the other None.
ConcurrentSameMessage ==
    \E p \in Procs : \E q \in Procs \ {p} :
        /\ ctx[p].pc = "added" /\ ctx[q].pc = "added"
        /\ ctx[p].inv = ctx[q].inv
        /\ ctx[p].status = "pending" /\ ctx[q].status = "pending"
        /\ ctx[p].result = "inserted"
        /\ ctx[q].result = "duplicate"

\* C5: add_meeting with a message_id that is already stored returns None,
\* raises nothing and leaves the store unchanged, in every store
\* configuration.
DuplicateAddReturnsNone ==
    [][\A p \in Procs :
          (/\ ctx[p].pc = "add"
           /\ ctx'[p].pc = "added"
           /\ Rows(ctx[p].inv.message_id) # {})
             => /\ ctx'[p].result = "duplicate"
                /\ meetings' = meetings]_vars

\* C6: no two records that are pending or joining have overlapping windows.
NoOverlapAmongActive ==
    \A i \in DOMAIN meetings : \A j \in DOMAIN meetings :
        (/\ i # j
         /\ meetings[i].status \in {"pending", "joining"}
         /\ meetings[j].status \in {"pending", "joining"})
            => ~Overlap(meetings[i], meetings[j])

\* C7: a record that is not pending is never set to pending.
NeverBackToPending ==
    [][\A i \in DOMAIN meetings :
          meetings[i].status # "pending" => meetings'[i].status # "pending"]_vars

\* C7 witness: a record left pending through a failed join trigger.
SomeSpawnFailed ==
    \E i \in DOMAIN meetings :
        meetings[i].status = "spawn_failed" /\ invoked[i] >= 1

SpecStatuses ==
    {"pending", "joining", "joined", "spawn_failed", "missed", "declined",
     "cancelled", "completed"}

\* C8 as stated: every stored status is one of pending, joining, joined,
\* spawn_failed, missed, declined, cancelled or completed.
StatusInSpecEnumeration ==
    \A i \in DOMAIN meetings : meetings[i].status \in SpecStatuses

\* C8 amended: every stored status is one of that enumeration or bot_spawned,
\* the value scheduler_pg writes for a launched join.
StatusInEnumeration ==
    \A i \in DOMAIN meetings :
        meetings[i].status \in SpecStatuses \cup {"bot_spawned"}

\* C8 witness: a launched join is stored as bot_spawned.
SomeBotSpawned ==
    \E i \in DOMAIN meetings : meetings[i].status = "bot_spawned" /\ i \in jobs

StatusEdges ==
    { <<"pending", "joining">>, <<"joining", "joined">>,
      <<"joining", "bot_spawned">>, <<"joining", "spawn_failed">>,
      <<"pending", "cancelled">>, <<"joining", "cancelled">>,
      <<"bot_spawned", "completed">> }

\* C9: records are created pending, missed or declined, and every later
\* status change follows pending->joining, joining->joined (bot_spawned),
\* joining->spawn_failed, pending->cancelled or joining->cancelled (or the
\* recorder's joined->completed).
OnlyStateMachineEdges ==
    [][/\ \A i \in DOMAIN meetings' :
             i \notin DOMAIN meetings =>
                 meetings'[i].status \in {"pending", "missed", "declined"}
       /\ \A i \in DOMAIN meetings :
             \/ meetings'[i].status = meetings[i].status
             \/ <<meetings[i].status, meetings'[i].status>> \in StatusEdges]_vars

\* C10: a CANCEL with identity X, when the most recently created record with
\* uid X exists and is neither cancelled nor completed, selects that record
\* and leaves it with status cancelled.
CancelCancelsLatest ==
    [][\A p \in Procs :
          /\ (/\ ctx[p].pc = "idle"
              /\ ctx'[p].inv.method = "CANCEL"
              /\ ctx'[p].inv.uid # ""
              /\ LatestByUid(ctx'[p].inv.uid) # {}
              /\ \A i \in LatestByUid(ctx'[p].inv.uid) :
                    meetings[i].status \notin {"cancelled", "completed"})
                => /\ ctx'[p].pc = "cancel"
                   /\ ctx'[p].target \in LatestByUid(ctx'[p].inv.uid)
          /\ (ctx[p].pc = "cancel" /\ ctx'[p].pc # "cancel")
                => /\ ctx'[p].result = "cancelled"
                   /\ meetings'[ctx[p].target].status = "cancelled"
                   /\ meetings'[ctx[p].target].uid = ctx[p].inv.uid]_vars

\* C10 witness: a cancellation has just set the most recent record of its
\* identity to cancelled; that record was accepted as pending and no join
\* was ever triggered for it, and an older record of the identity exists.
CancelledByInvite ==
    \E p \in Procs :
        /\ ctx[p].pc = "ret"
        /\ ctx[p].result = "cancelled"
        /\ \A q \in Procs \ {p} : ctx[q].pc = "idle"
        /\ Len(meetings) = 2
        /\ meetings[1].uid = meetings[2].uid
        /\ meetings[1].created_at < meetings[2].created_at
        /\ meetings[2].status = "cancelled"
        /\ invoked[2] = 0
        /\ \E k \in DOMAIN rsvps :
              rsvps[k].message_id = meetings[2].message_id /\ rsvps[k].accepted

\* C11: processing a CANCEL never inserts a record and requests no RSVP; when
\* the invite has no identity or no stored record has its identity, the
\* handler ends as an orphan without changing any record.
CancelCreatesNothing ==
    [][\A p \in Procs :
          /\ (ctx[p].pc = "idle" /\ ctx'[p].inv.method = "CANCEL")
                => /\ meetings' = meetings
                   /\ rsvps' = rsvps
                   /\ returned' = returned
                   /\ (\/ ctx'[p].inv.uid = ""
                       \/ \A i \in DOMAIN meetings :
                             meetings[i].uid # ctx'[p].inv.uid)
                         => (ctx'[p].pc = "ret" /\ ctx'[p].result = "orphan")
          /\ (ctx[p].pc = "cancel" /\ ctx'[p].pc # "cancel")
                => /\ Len(meetings') = Len(meetings)
                   /\ rsvps' = rsvps
                   /\ returned' = returned
          /\ (/\ ctx[p].pc = "ret"
              /\ ctx[p].result \in {"orphan", "terminal", "cancelled"}
              /\ ctx'[p] # ctx[p])
                => /\ ctx'[p] = Idle
                   /\ meetings' = meetings
                   /\ rsvps' = rsvps]_vars

\* C11 witness: a CANCEL for identity u1 ended as an orphan while the store
\* holds a pending record of another identity, left pending.
OrphanCancelIgnored ==
    \E p \in Procs :
        /\ ctx[p].pc = "ret"
        /\ ctx[p].result = "orphan"
        /\ ctx[p].inv.uid = "u1"
        /\ Len(meetings) = 1
        /\ meetings[1].uid = ""
        /\ meetings[1].status = "pending"

\* Only _handle_cancellation writes cancelled and the mailbox holds one CANCEL
\* message per identity, so a cancelled record of identity x shows that the
\* CANCEL message of x has been processed before.
CancelProcessedBefore(x) ==
    \E i \in DOMAIN meetings :
        meetings[i].uid = x /\ meetings[i].status = "cancelled"

\* C12: processing a CANCEL message that was already processed changes the
\* status of no record, whatever was ingested in between.
ReprocessedCancelIsNoop ==
    [][\A p \in Procs :
          (/\ ctx[p].pc = "cancel"
           /\ ctx'[p].pc # "cancel"
           /\ CancelProcessedBefore(ctx[p].inv.uid))
             => meetings' = meetings]_vars

\* The records the claim's overlap test selects for a candidate window.
ConflictsAsStated(start, end, exclude_id) ==
    { i \in DOMAIN meetings :
        /\ meetings[i].status \notin {"completed", "cancelled", "missed", "declined"}
        /\ (exclude_id # NoId => i # exclude_id)
        /\ meetings[i].start_time < end
        /\ \/ (meetings[i].end_time # NoTime /\ meetings[i].end_time > start)
           \/ (meetings[i].end_time = NoTime /\ meetings[i].start_time + 60 > start) }

\* C13: check_conflicts(start, end, exclude_id) returns exactly the records
\* that are not completed, cancelled, missed or declined, are not exclude_id,
\* start before end and end after start (a null end counting as start + 1h);
\* each of them once.
CheckConflictsExact ==
    \A p \in Procs :
        (ctx[p].pc = "ret" /\ ctx[p].result = "conflicts"
            /\ ctx[p].inv.end_time # NoTime)
          => /\ { ctx[p].upcoming[k] : k \in DOMAIN ctx[p].upcoming }
                  = ConflictsAsStated(ctx[p].inv.start_time, ctx[p].inv.end_time,
                                      ctx[p].target)
             /\ Len(ctx[p].upcoming)
                  = Cardinality(ConflictsAsStated(ctx[p].inv.start_time,
                                                  ctx[p].inv.end_time,
                                                  ctx[p].target))

\* C13 witness: candidate [10:30,11:30) against a pending [10:00,11:00) and a
\* pending [11:00,12:00) with the second excluded by id: only the first is
\* returned.
ConflictFound ==
    \E p \in Procs :
        /\ ctx[p].pc = "ret" /\ ctx[p].result = "conflicts"
        /\ ctx[p].inv.start_time = 630 /\ ctx[p].inv.end_time = 690
        /\ ctx[p].target = 2
        /\ Len(meetings) = 2
        /\ meetings[1].status = "pending"
        /\ meetings[1].start_time = 600 /\ meetings[1].end_time = 660
        /\ meetings[2].status = "pending"
        /\ meetings[2].start_time = 660 /\ meetings[2].end_time = 720
        /\ ctx[p].upcoming = <<1>>

\* C14: a candidate without end time is conflict-checked as the window
\* [start, start + 1 hour), both by check_conflicts itself and in the intake
\* decision, and the record stored for it keeps a null end_time.
NoEndCountsOneHour ==
    [][\A p \in Procs :
          /\ (/\ ctx[p].pc = "idle"
              /\ ctx'[p].result = "conflicts"
              /\ ctx'[p].inv.end_time = NoTime)
                => { ctx'[p].upcoming[k] : k \in DOMAIN ctx'[p].upcoming }
                     = ConflictsAsStated(ctx'[p].inv.start_time,
                                         ctx'[p].inv.start_time + 60,
                                         ctx'[p].target)
          /\ (/\ ctx[p].pc = "idle"
              /\ ctx'[p].pc = "add"
              /\ ctx'[p].inv.end_time = NoTime)
                => ctx'[p].status =
                     IF ConflictsAsStated(ctx'[p].inv.start_time,
                                          ctx'[p].inv.start_time + 60, NoId) # {}
                     THEN "declined" ELSE "pending"
          /\ (/\ ctx[p].pc = "add"
              /\ ctx'[p].pc = "added"
              /\ ctx[p].inv.end_time = NoTime
              /\ ctx'[p].result = "inserted")
                => /\ meetings'[Len(meetings')].start_time = ctx[p].inv.start_time
                   /\ meetings'[Len(meetings')].end_time = NoTime]_vars

\* C14 witness: the candidate starting at 10:00 without end was stored
\* declined, with a null end, against a pending [10:30,10:45).
NoEndDeclined ==
    /\ Len(meetings) = 2
    /\ meetings[1].status = "pending"
    /\ meetings[1].start_time = 630 /\ meetings[1].end_time = 645
    /\ meetings[2].message_id = "m3"
    /\ meetings[2].start_time = 600 /\ meetings[2].end_time = NoTime
    /\ meetings[2].status = "declined"

MalformedSkipped ==
    [][\A p \in Procs :
          /\ ctx'[p].pc = "add"
                => (ctx'[p].inv.join_url # "" /\ ctx'[p].inv.start_time # NoTime)
          /\ (ctx[p].pc = "idle" /\ ctx'[p].result = "skipped")
                => (ctx'[p].pc = "ret"
                    /\ UNCHANGED <<meetings, rsvps, jobs, invoked, returned>>)
          /\ (ctx[p].pc = "ret" /\ ctx[p].result = "skipped" /\ ctx'[p] # ctx[p])
                => (ctx'[p] = Idle
                    /\ UNCHANGED <<meetings, rsvps, jobs, invoked, returned>>)]_vars

\* C16 witness: both contexts have just skipped a malformed invite while a
\* pending record is stored.
BothPathsSkipped ==
    /\ \A p \in Procs : ctx[p].pc = "ret" /\ ctx[p].result = "skipped"
    /\ Len(meetings) = 1
    /\ meetings[1].status = "pending"

\* C17: an actionable invite whose end time is before now is given status
\* missed whatever the store holds, is stored so when its message_id is new,
\* and no RSVP is requested and no join started for it.
PastInviteMissed ==
    [][\A p \in Procs :
          /\ (/\ ctx[p].pc = "idle"
              /\ ctx'[p].pc = "add"
              /\ ctx'[p].inv.end_time # NoTime
              /\ ctx'[p].inv.end_time < now)
                => ctx'[p].status = "missed"
          /\ (/\ ctx[p].pc = "add"
              /\ ctx'[p].pc = "added"
              /\ ctx[p].status = "missed")
                => /\ rsvps' = rsvps
                   /\ Rows(ctx[p].inv.message_id) = {}
                         => /\ ctx'[p].result = "inserted"
                            /\ Len(meetings') = Len(meetings) + 1
                            /\ meetings'[Len(meetings')].status = "missed"
          /\ (/\ ctx[p].pc = "added"
              /\ ctx[p].status = "missed"
              /\ ctx'[p] # ctx[p])
                => /\ ctx'[p] = Idle
                   /\ UNCHANGED <<meetings, rsvps, jobs, invoked>>]_vars

\* C17 witness: at 12:00 the invite [10:30,11:30) was stored missed, without
\* RSVP, although it overlaps a pending record without end that began 10:00.
MissedDespiteOverlap ==
    /\ now = 720
    /\ Len(meetings) = 2
    /\ meetings[1].status = "pending"
    /\ meetings[1].start_time = 600 /\ meetings[1].end_time = NoTime
    /\ meetings[2].message_id = "m3"
    /\ meetings[2].start_time = 630 /\ meetings[2].end_time = 690
    /\ meetings[2].status = "missed"
    /\ rsvps = <<>>

\* C18: once a record is spawn_failed the join trigger is never invoked for
\* it again, in any interleaving of the scan and the intake shortcut.
NoRetryAfterSpawnFailed ==
    [][\A i \in DOMAIN meetings :
          meetings[i].status = "spawn_failed" => invoked'[i] = invoked[i]]_vars

\* C19: when the RSVP of an ingestion fails, the ingestion still completes
\* without raising and the record it inserted stays stored with its decided
\* status, pending or declined.
RsvpFailureKeepsRecord ==
    [][\A p \in Procs :
          /\ (ctx[p].pc = "add" /\ ctx'[p].pc = "added" /\ ctx'[p].rsvp = "failed")
                => /\ ctx'[p].result = "inserted"
                   /\ ctx[p].status \in {"pending", "declined"}
                   /\ Len(meetings') = Len(meetings) + 1
                   /\ meetings'[Len(meetings')].message_id = ctx[p].inv.message_id
                   /\ meetings'[Len(meetings')].status = ctx[p].status
          /\ (ctx[p].pc = "added" /\ ctx[p].rsvp = "failed" /\ ctx'[p] # ctx[p])
                => /\ meetings' = meetings
                   /\ ctx'[p].pc \in {"idle", "scan"}]_vars

\* C19 witness: the decline RSVP of an invite with uid failed and its record
\* is stored declined.
RsvpFailedRecordKept ==
    \E p \in Procs :
        /\ ctx[p].pc = "added"
        /\ ctx[p].rsvp = "failed"
        /\ ctx[p].result = "inserted"
        /\ meetings[ctx[p].target].uid = "u1"
        /\ meetings[ctx[p].target].status = "declined"

\* C20: a failure while processing one invite keeps no other invite of the
\* batch from being processed: an invite leaves the batch only when its own
\* handler starts.
BatchIsolation ==
    [][Len(batch') < Len(batch)
          => /\ batch' = Tail(batch)
             /\ ctx["poll"].pc = "idle"
             /\ ctx'["poll"].pc # "idle"]_vars

\* C21: after a reconnect, a catch-up hands to the intake callback only
\* messages whose UID is greater than the cursor it started from, whether
\* or not the cursor message is still in the search result.
CatchUpOnlyAfterCursor ==
    [][(mon.pc = "process" /\ mon'.pc = "idle" /\ mon.connects = "again")
         => \A k \in DOMAIN mon'.handed : mon'.handed[k] > mon.last_seen_uid]_vars

\* C22: a message that arrived while the supervisor had no connection and
\* is still in the mailbox is never left behind the cursor undelivered: the
\* cursor passes it only by delivering it.
NoArrivalSkipped ==
    \A u \in mon.gap \cap mon.inbox :
        u <= mon.last_seen_uid => u \in mon.delivered

\* C23: after stop() the thread is never inside a loop that goes on without
\* testing the running flag.
StopEndsEveryLoop == ~(mon.pc = "spin" /\ ~mon.running)

\* C24: before stop() is called run() has neither returned nor got stuck
\* outside the IDLE wait.
RunningNeverStuck ==
    (mon.running /\ mon.pc # "new") => mon.pc \notin {"returned", "spin"}

\* C25: process_invite does not return with a record pending that it has
\* just inserted as pending and that is due (it starts within
\* join_before_minutes + 1 minutes, or it has started and has not ended):
\* it runs the due scan first, and the scan leaves the record spawned or
\* spawn_failed (or cancelled by a CANCEL handled meanwhile).
DueAsStated(m, t) ==
    \/ (0 <= m.start_time - t /\ m.start_time - t < JoinBeforeMinutes + 1)
    \/ (m.start_time < t /\ (m.end_time = NoTime \/ m.end_time > t))

ShortcutLeavesNoPending ==
    [][/\ (/\ ctx["push"].pc = "added"
           /\ ctx'["push"].pc = "idle"
           /\ ctx["push"].result = "inserted")
          => ~(/\ ctx["push"].status = "pending"
               /\ DueAsStated(meetings[ctx["push"].target], now))
       /\ (/\ ctx["push"].pc = "scan"
           /\ ctx'["push"].pc = "idle")
          => \A i \in Rows(ctx["push"].inv.message_id) :
                meetings[i].status # "pending"]_vars

\* A record that started two hours ago and has no end went through the
\* shortcut.
ShortcutTaken ==
    /\ ctx["push"].pc = "scan"
    /\ ctx["push"].upcoming = <<>>
    /\ \E i \in Rows(ctx["push"].inv.message_id) :
         /\ meetings[i].status \in {"bot_spawned", "spawn_failed"}
         /\ meetings[i].start_time < now
         /\ meetings[i].end_time = NoTime

\* C26: get_upcoming(h) returns exactly the pending records that start
\* between now - 10 minutes and now + h, or that started before now and have
\* no end or an end after now, ordered by start time; a pending record
\* without end that started in the past is returned however long ago.
UpcomingAsStated(m, h) ==
    /\ m.status = "pending"
    /\ \/ (now - GraceMinutes <= m.start_time /\ m.start_time <= now + h)
       \/ (m.start_time < now /\ (m.end_time = NoTime \/ m.end_time > now))

GetByUidLatest ==
    \A p \in Procs :
        (ctx[p].pc = "ret" /\ ctx[p].result = "by_uid") =>
            LET X == ctx[p].inv.uid
                r == ctx[p].upcoming
                having == { i \in DOMAIN meetings : meetings[i].uid = X }
            IN  IF X = "" \/ having = {}
                THEN r = <<>>
                ELSE /\ Len(r) = 1
                     /\ r[1] \in having
                     /\ \A j \in having :
                           meetings[j].created_at <= meetings[r[1]].created_at

\* The lookup returned the later-created of two records of one uid, which
\* is not the one inserted last, with a record of empty uid in the table.
LatestOfTwoReturned ==
    /\ ctx["poll"].pc = "ret"
    /\ ctx["poll"].result = "by_uid"
    /\ ctx["poll"].inv.uid = "u1"
    /\ Len(meetings) = MaxMeetings
    /\ \E i \in DOMAIN meetings : meetings[i].uid = ""
    /\ \E i, j \in DOMAIN meetings :
         /\ i < j
         /\ meetings[i].uid = "u1"
         /\ meetings[j].uid = "u1"
         /\ meetings[i].created_at > meetings[j].created_at
         /\ ctx["poll"].upcoming = <<i>>

\* C28: no step deletes a record or changes a field other than status, and
\* update_status(id, s) sets the status of record id to s, leaves every
\* other record as it is, and changes nothing when no record has that id.
SameButStatus(a, b) == [a EXCEPT !.status = b.status] = b

OnlyStatusChanges ==
    [][/\ Len(meetings') >= Len(meetings)
       /\ \A i \in DOMAIN meetings : SameButStatus(meetings[i], meetings'[i])
       /\ \A p \in Procs :
            (ctx[p].pc = "idle" /\ ctx'[p].pc = "ret" /\ ctx'[p].result = "updated")
            => /\ Len(meetings') = Len(meetings)
               /\ \A i \in DOMAIN meetings :
                    IF i = ctx'[p].target
                    THEN meetings'[i].status = ctx'[p].status
                    ELSE meetings'[i] = meetings[i]
               /\ (ctx'[p].target \notin DOMAIN meetings => meetings' = meetings)]_vars

\* update_status has been called on an id no record has, and on the first
\* of two records, which changed nothing but that record's status.
UpdateStatusCalled ==
    /\ ctx["poll"].pc = "ret"
    /\ ctx["poll"].result = "updated"
    /\ ctx["poll"].target = MaxMeetings
    /\ Len(meetings) = 2
    /\ meetings[1].status = "cancelled"
    /\ meetings[2].status = "pending"

PathsAgree ==
    [][/\ \A inv \in Requests \cup Malformed :
            sync_inbox_status(meetings, inv, now)
               = process_invite_status(meetings, inv, now)
       /\ \A p \in Procs :
            /\ (ctx[p].pc = "idle" /\ ctx'[p].pc = "add")
               => /\ ctx'[p].status
                        = sync_inbox_status(meetings, ctx'[p].inv, now)
                  /\ ctx'[p].status
                        = process_invite_status(meetings, ctx'[p].inv, now)
            /\ (ctx[p].pc = "add" /\ ctx'[p].pc = "added" /\ rsvps' # rsvps)
               => /\ sync_inbox_rsvp(ctx[p].status)
                        = process_invite_rsvp(ctx[p].status)
                  /\ rsvps'[Len(rsvps')].accepted
                        = (sync_inbox_rsvp(ctx[p].status) = "accept")]_vars

\* The push path has stored an invite as missed, without RSVP, next to the
\* record the poll path stored.
PushStoredMissed ==
    /\ ctx["push"].pc = "added"
    /\ ctx["push"].status = "missed"
    /\ ctx["push"].result = "inserted"
    /\ ctx["push"].rsvp = "-"
    /\ Len(meetings) = 2
    /\ meetings[1].status = "pending"

\* C31: once a CANCEL of protocol identity X has been processed, no record
\* of uid X is pending, however many records share the uid.
CancelLeavesNonePending ==
    [][\A p \in Procs :
        /\ (ctx[p].pc = "cancel" /\ ctx'[p].pc = "ret")
           => \A i \in DOMAIN meetings' :
                 meetings'[i].uid = ctx[p].inv.uid
                    => meetings'[i].status # "pending"
        /\ (ctx[p].pc = "idle" /\ ctx'[p].pc = "ret"
               /\ ctx'[p].result = "terminal")
           => \A i \in DOMAIN meetings' :
                 meetings'[i].uid = ctx'[p].inv.uid
                    => meetings'[i].status # "pending"]_vars

\* C32: a record that is cancelled stays cancelled and the join trigger is
\* not invoked for it afterwards, also when a scan had read it as due
\* before the cancellation.
CancelledNeverLaunched ==
    [][\A i \in DOMAIN meetings :
         (meetings[i].status = "cancelled" /\ invoked[i] = 0)
            => /\ meetings'[i].status = "cancelled"
               /\ invoked'[i] = 0]_vars

\* C33: a record for which a bot Job was created is never spawn_failed.
SpawnFailedMeansNoBot ==
    \A i \in DOMAIN meetings :
        i \in jobs => meetings[i].status # "spawn_failed"

\* C36: a record is in status joining only while some context is inside
\* trigger_join for it; whatever create_namespaced_job did, the context
\* leaves trigger_join with the record bot_spawned or spawn_failed.
TriggerInsideJoin(p, i) == ctx[p].pc \in {"create", "result"} /\ ctx[p].target = i

JoiningOnlyInsideTrigger ==
    [][/\ \A i \in DOMAIN meetings :
            meetings[i].status = "joining" => \E p \in Procs : TriggerInsideJoin(p, i)
       /\ \A p \in Procs :
            (ctx[p].pc = "result" /\ ctx'[p].pc = "scan")
               => meetings'[ctx[p].target].status
                     = (IF ctx[p].spawned THEN "bot_spawned" ELSE "spawn_failed")]_vars

\* A trigger_join whose Job creation failed has returned and left the
\* record spawn_failed, and another whose creation succeeded bot_spawned.
BothOutcomesLeft ==
    /\ \A p \in Procs : ctx[p].pc \notin {"create", "result"}
    /\ \E i, j \in DOMAIN meetings :
         /\ meetings[i].status = "spawn_failed" /\ invoked[i] > 0
         /\ meetings[j].status = "bot_spawned" /\ j \in jobs

\* C34: in poll mode the join trigger is invoked at most once per record:
\* a record whose trigger_join has returned is not pending, and no later
\* scan returns it.
PollTriggersOnce ==
    [][/\ \A i \in DOMAIN meetings :
            /\ invoked'[i] > invoked[i] => invoked[i] = 0
            /\ (invoked[i] > 0 /\ ~TriggerInsideJoin("poll", i))
                  => meetings[i].status # "pending"
       /\ (ctx["poll"].pc = "idle" /\ ctx'["poll"].pc = "scan")
            => \A k \in DOMAIN ctx'["poll"].upcoming :
                  invoked[ctx'["poll"].upcoming[k]] = 0]_vars

\* A later cycle's scan returned the record that has become due and left
\* out the one triggered by an earlier cycle, which is still inside the
\* scan window.
LaterScanLeftItOut ==
    /\ ctx["poll"].pc = "scan"
    /\ Len(ctx["poll"].upcoming) = 1
    /\ \E i \in DOMAIN meetings :
         /\ invoked[i] = 1
         /\ i # ctx["poll"].upcoming[1]
         /\ meetings[i].status \in {"bot_spawned", "spawn_failed"}
         /\ IsUpcoming([meetings[i] EXCEPT !.status = "pending"], now,
                       JoinBeforeMinutes + 1)

\* C35: a run_once cycle that has begun goes on to its join scan whatever
\* happened in sync_inbox: the cycle's work ends only by starting the scan.
CycleAlwaysScans ==
    [][(batch # <<>> /\ batch' = <<>>) => ctx'["poll"].pc = "scan"]_vars

\* C37: a pending record whose end has passed and that started more than
\* 10 minutes ago is in no due list a scan reads, keeps its status in every
\* step but the update of a CANCEL, and still makes an overlapping new
\* invite declined; no step sets a stored record to missed.
PastPending(m, t) ==
    /\ m.status = "pending"
    /\ m.end_time # NoTime
    /\ m.end_time <= t
    /\ m.start_time < t - GraceMinutes

PastPendingStays ==
    [][/\ \A i \in DOMAIN meetings :
            /\ PastPending(meetings[i], now)
               => /\ \/ meetings'[i].status = "pending"
                     \/ \E p \in Procs : ctx[p].pc = "cancel" /\ ctx[p].target = i
                  /\ \A p \in Procs :
                       (ctx[p].pc # "scan" /\ ctx'[p].pc = "scan")
                          => \A k \in DOMAIN ctx'[p].upcoming :
                                ctx'[p].upcoming[k] # i
            /\ meetings[i].status # "missed" => meetings'[i].status # "missed"
       /\ \A p \in Procs :
            (ctx[p].pc = "idle" /\ ctx'[p].pc = "add"
               /\ ~AlreadyEnded(ctx'[p].inv, now)
               /\ \E i \in DOMAIN meetings :
                     /\ PastPending(meetings[i], now)
                     /\ Overlap(meetings[i], ctx'[p].inv))
            => ctx'[p].status = "declined"]_vars

\* The shortcut's scan returned only the record just inserted, while a
\* record that ended an hour ago is still pending in the table.
PastPendingLeftOut ==
    /\ ctx["push"].pc = "scan"
    /\ Len(ctx["push"].upcoming) = 1
    /\ meetings[ctx["push"].upcoming[1]].message_id = "m3"
    /\ \E i \in DOMAIN meetings : PastPending(meetings[i], now)

\* C38: a catch-up moves the cursor to the last message it handed to
\* _process_message, and hands over no message that an earlier catch-up
\* has handed over already.
DeliveredAtMostOnce ==
    [][(mon.pc = "process" /\ mon'.pc = "idle")
         => /\ mon'.handed # <<>>
                  => mon'.last_seen_uid = mon'.handed[Len(mon'.handed)]
            /\ \A k \in DOMAIN mon'.handed :
                  mon'.handed[k] \notin mon.delivered]_vars

\* C39: of the invites that have no Message-ID only the first ingested
\* creates a record; every later one, whatever its window or uid, leaves
\* the table and the RSVP requests as they are.
HeaderlessAbsorbed ==
    [][/\ Cardinality(Rows("")) <= 1
       /\ \A p \in Procs :
            (/\ ctx[p].pc = "add"
             /\ ctx'[p].pc = "added"
             /\ ctx[p].inv.message_id = "")
            => IF Rows("") = {}
               THEN /\ ctx'[p].result = "inserted"
                    /\ Len(meetings') = Len(meetings) + 1
               ELSE /\ ctx'[p].result # "inserted"
                    /\ meetings' = meetings
                    /\ rsvps' = rsvps]_vars

\* A second invite without Message-ID, which would have been declined, has
\* been absorbed: one record of empty message id, one RSVP, for the first.
SecondHeaderlessAbsorbed ==
    /\ \E p \in Procs :
         /\ ctx[p].pc = "added"
         /\ ctx[p].inv.message_id = ""
         /\ ctx[p].result = "duplicate"
         /\ ctx[p].status = "declined"
    /\ Cardinality(Rows("")) = 1
    /\ Len(rsvps) = 1
    /\ returned[""] = 1

====
